---- MODULE Spec2Model ----
(***************************************************************************)
(* Pendulum wave simulator (src/main.cpp): the parameter derivation, the   *)
(* colour ramp, Pendulum::update and the frame loop of main().             *)
(*                                                                         *)
(* Every `float` of the program is an IEEE-754 binary32 value.  A value is *)
(* the record [k, s, m, e]: k = "fin" stands for (-1)^s * m * 2^e with     *)
(* 0 <= m < 2^24 and -149 <= e <= 104 (m < 2^23 only when e = -149), and   *)
(* k = "inf" / "nan" are the infinities and NaN.  The arithmetic operators *)
(* round to nearest, ties to even, as the compiled code does.              *)
(***************************************************************************)
EXTENDS Integers, Sequences, FiniteSets, TLC

\* ------------------------------------------------------------------------
\* binary32 values
\* ------------------------------------------------------------------------

Pow2(n) == 2 ^ n

RECURSIVE BitLen(_)
\* number of significant bits of n >= 0
BitLen(n) == IF n = 0 THEN 0 ELSE 1 + BitLen(n \div 2)

MaxOf(a, b) == IF a >= b THEN a ELSE b

FZero(s) == [k |-> "fin", s |-> s, m |-> 0, e |-> 0 - 149]
FInf(s) == [k |-> "inf", s |-> s, m |-> 0, e |-> 0]
\* a NaN keeps its sign s and its 23 fraction bits m; the NaN an invalid
\* operation (0/0, inf - inf, 0 * inf) produces on x86-64 is 0xffc00000
FNaN == [k |-> "nan", s |-> 1, m |-> Pow2(22), e |-> 0]

IsNaN(a) == a.k = "nan"
IsInf(a) == a.k = "inf"
IsFin(a) == a.k = "fin"
IsZero(a) == a.k = "fin" /\ a.m = 0

\* An arithmetic instruction with a NaN operand returns a NaN operand with
\* its quiet bit set: the only one, or of two the instruction's first.  For
\* the commutative * and + the compiler chooses which operand of the
\* expression is the instruction's first (the operands are swapped between
\* an unoptimised and an optimised build), so that two different NaNs give
\* either of them.  Such a result is the record [k |-> "nan", of |-> S] of
\* the NaNs S it can be; a NaN of one known pattern is never written so.

\* the NaNs a NaN value can be
NaNs(a) == IF "of" \in DOMAIN a THEN a.of ELSE {a}

\* a NaN with its quiet bit set
Quiet(n) == [n EXCEPT !.m = IF n.m >= Pow2(22) THEN n.m ELSE n.m + Pow2(22)]

\* the NaN value that is one of the NaNs S
EitherNaN(S) ==
    IF \E n \in S : S = {n} THEN CHOOSE n \in S : TRUE
    ELSE [k |-> "nan", of |-> S]

\* the NaN a - b and a / b return: the first NaN operand, quieted
NaNFirst(a, b) == EitherNaN({Quiet(n) : n \in NaNs(IF IsNaN(a) THEN a ELSE b)})

\* the NaN a * b and a + b return: a NaN operand quieted, either one of two
NaNOf(a, b) ==
    IF IsNaN(a) /\ IsNaN(b) THEN EitherNaN({Quiet(n) : n \in NaNs(a) \cup NaNs(b)})
    ELSE NaNFirst(a, b)

\* a finite value from sign, significand and exponent already in range
Pack(s, m, e) ==
    IF m = 0 THEN FZero(s)
    ELSE IF e > 104 THEN FInf(s)
    ELSE [k |-> "fin", s |-> s, m |-> m, e |-> e]

\* (-1)^s * (sig + f) * 2^exp with 0 <= f < 1, f > 0 iff sticky, rounded to
\* nearest-even.  sig < 2^28; when sticky, sig carries at least 26 bits.
RoundPack(s, sig, exp, sticky) ==
    IF sig = 0 THEN FZero(s)
    ELSE
      LET nb == BitLen(sig)
          te == MaxOf(exp + nb - 24, 0 - 149)
          sh == te - exp
      IN IF sh <= 0 THEN Pack(s, sig * Pow2(0 - sh), te)
         ELSE IF sh > nb THEN FZero(s)
         ELSE
           LET q == sig \div Pow2(sh)
               r == sig % Pow2(sh)
               half == Pow2(sh - 1)
               up == r > half \/ (r = half /\ (sticky \/ q % 2 = 1))
               m1 == IF up THEN q + 1 ELSE q
           IN IF m1 = Pow2(24) THEN Pack(s, Pow2(23), te + 1)
              ELSE Pack(s, m1, te)

\* significand of a finite nonzero value shifted up to 24 bits
NormM(a) == a.m * Pow2(24 - BitLen(a.m))
NormE(a) == a.e - (24 - BitLen(a.m))

\* float operator*
FMul(a, b) ==
    LET s == (a.s + b.s) % 2
    IN IF IsNaN(a) \/ IsNaN(b) THEN NaNOf(a, b)
       ELSE IF IsInf(a) \/ IsInf(b)
            THEN (IF IsZero(a) \/ IsZero(b) THEN FNaN ELSE FInf(s))
       ELSE IF IsZero(a) \/ IsZero(b) THEN FZero(s)
       ELSE
         LET ma == NormM(a)
             mb == NormM(b)
             ah == ma \div 4096
             al == ma % 4096
             bh == mb \div 4096
             bl == mb % 4096
             mid == ah * bl + al * bh
             low == al * bl + (mid % 4096) * 4096
             hi == ah * bh + mid \div 4096 + low \div Pow2(24)
             lo == low % Pow2(24)
         IN RoundPack(s, hi * 16 + lo \div Pow2(20),
                      NormE(a) + NormE(b) + 20, lo % Pow2(20) # 0)

\* float operator/
FDiv(a, b) ==
    LET s == (a.s + b.s) % 2
    IN IF IsNaN(a) \/ IsNaN(b) THEN NaNFirst(a, b)
       ELSE IF IsInf(a) THEN (IF IsInf(b) THEN FNaN ELSE FInf(s))
       ELSE IF IsInf(b) THEN FZero(s)
       ELSE IF IsZero(b) THEN (IF IsZero(a) THEN FNaN ELSE FInf(s))
       ELSE IF IsZero(a) THEN FZero(s)
       ELSE
         LET ma == NormM(a)
             mb == NormM(b)
             q0 == ma \div mb
             r0 == ma % mb
             q1 == q0 * 64 + (r0 * 64) \div mb
             r1 == (r0 * 64) % mb
             q2 == q1 * 64 + (r1 * 64) \div mb
             r2 == (r1 * 64) % mb
             q3 == q2 * 64 + (r2 * 64) \div mb
             r3 == (r2 * 64) % mb
             q4 == q3 * 64 + (r3 * 64) \div mb
             r4 == (r3 * 64) % mb
             q5 == q4 * 8 + (r4 * 8) \div mb
             r5 == (r4 * 8) % mb
         IN RoundPack(s, q5, NormE(a) - NormE(b) - 27, r5 # 0)

\* unary minus and std::abs act on the sign bit alone, of a NaN too
FNeg(a) ==
    IF IsNaN(a) THEN EitherNaN({[n EXCEPT !.s = 1 - n.s] : n \in NaNs(a)})
    ELSE [a EXCEPT !.s = 1 - a.s]

FAbs(a) ==
    IF IsNaN(a) THEN EitherNaN({[n EXCEPT !.s = 0] : n \in NaNs(a)})
    ELSE [a EXCEPT !.s = 0]

\* |a| < |b| for finite a, b
MagLt(a, b) == a.e < b.e \/ (a.e = b.e /\ a.m < b.m)

\* float operator+
FAdd(a, b) ==
    IF IsNaN(a) \/ IsNaN(b) THEN NaNOf(a, b)
    ELSE IF IsInf(a) THEN (IF IsInf(b) /\ a.s # b.s THEN FNaN ELSE a)
    ELSE IF IsInf(b) THEN b
    ELSE IF IsZero(a) /\ IsZero(b) THEN (IF a.s = 1 /\ b.s = 1 THEN a ELSE FZero(0))
    ELSE IF IsZero(b) THEN a
    ELSE IF IsZero(a) THEN b
    ELSE
      LET x == IF MagLt(a, b) THEN b ELSE a     \* the larger magnitude
          y == IF MagLt(a, b) THEN a ELSE b
          d == x.e - y.e
          big == x.m * 8
          sml == IF d >= 27 THEN 0 ELSE (y.m * 8) \div Pow2(d)
          sticky == IF d >= 27 THEN TRUE ELSE (y.m * 8) % Pow2(d) # 0
      IN IF x.s = y.s THEN RoundPack(x.s, big + sml, x.e - 3, sticky)
         ELSE IF big = sml /\ ~sticky THEN FZero(0)
         ELSE RoundPack(x.s, big - sml - (IF sticky THEN 1 ELSE 0), x.e - 3, sticky)

\* float operator-
FSub(a, b) == IF IsNaN(a) \/ IsNaN(b) THEN NaNFirst(a, b) ELSE FAdd(a, FNeg(b))

\* float operator<
FLt(a, b) ==
    IF IsNaN(a) \/ IsNaN(b) THEN FALSE
    ELSE IF IsZero(a) /\ IsZero(b) THEN FALSE
    ELSE IF a.s # b.s THEN a.s = 1
    ELSE IF a = b THEN FALSE
    ELSE LET lt == IF IsInf(b) THEN TRUE
                   ELSE IF IsInf(a) THEN FALSE
                   ELSE MagLt(a, b)
         IN IF a.s = 0 THEN lt ELSE ~lt

\* float operator==
FEq(a, b) ==
    IF IsNaN(a) \/ IsNaN(b) THEN FALSE
    ELSE (IsZero(a) /\ IsZero(b)) \/ a = b

FLe(a, b) == FLt(a, b) \/ FEq(a, b)

\* std::max(a, b) == (a < b) ? b : a
FMax(a, b) == IF FLt(a, b) THEN b ELSE a

\* int -> float conversion, |n| < 2^24 (exact)
FromInt(n) == IF n < 0 THEN RoundPack(1, 0 - n, 0, FALSE) ELSE RoundPack(0, n, 0, FALSE)

\* a decimal literal n/d: the compiler rounds it to the nearest float
Lit(n, d) == FDiv(FromInt(n), FromInt(d))

\* the two 16-bit halves of the bit pattern of a; of a NaN that is one of
\* several, the set of their patterns
FloatBits(a) ==
    LET Halves(x) ==
            LET bexp == IF ~IsFin(x) THEN 255
                        ELSE IF x.m < Pow2(23) THEN 0
                        ELSE x.e + 150
                frac == IF IsInf(x) THEN 0 ELSE x.m % Pow2(23)
            IN <<x.s * 32768 + bexp * 128 + frac \div 65536, frac % 65536>>
    IN IF IsNaN(a) /\ NaNs(a) # {a} THEN {Halves(n) : n \in NaNs(a)}
       ELSE Halves(a)

\* the value whose bit pattern is hi * 2^16 + lo
FromBits(hi, lo) ==
    LET s == hi \div 32768
        bexp == (hi % 32768) \div 128
        frac == (hi % 128) * 65536 + lo
    IN IF bexp = 255
       THEN (IF frac = 0 THEN FInf(s)
             ELSE [k |-> "nan", s |-> s, m |-> frac, e |-> 0])
       ELSE IF bexp = 0 THEN Pack(s, frac, 0 - 149)
       ELSE Pack(s, Pow2(23) + frac, bexp - 150)

\* ------------------------------------------------------------------------
\* Natural numbers of any size: a sequence of 14-bit limbs, least
\* significant first.  They carry the 53-bit significands of the `double`
\* intermediates and the 64-bit integers of the C library's std::cos,
\* std::sin and std::pow.
\* ------------------------------------------------------------------------

Base == 2 ^ 14

Limb(a, i) == IF i >= 1 /\ i <= Len(a) THEN a[i] ELSE 0

RECURSIVE Carry(_, _, _)
\* the limbs of the number whose i-th digit is cs[i] (a digit may exceed a
\* limb or be negative), c being the carry into digit i
Carry(cs, i, c) ==
    IF i > Len(cs) /\ c = 0 THEN <<>>
    ELSE LET v == Limb(cs, i) + c
         IN <<v % Base>> \o Carry(cs, i + 1, v \div Base)

BAdd(a, b) ==
    Carry([i \in 1..MaxOf(Len(a), Len(b)) |-> Limb(a, i) + Limb(b, i)], 1, 0)

\* a - b for a >= b
BSub(a, b) ==
    Carry([i \in 1..MaxOf(Len(a), Len(b)) |-> Limb(a, i) - Limb(b, i)], 1, 0)

\* a * b for a of at most four limbs
BMul(a, b) ==
    Carry([k \in 1..(Len(b) + 4) |->
             Limb(a, 1) * Limb(b, k) + Limb(a, 2) * Limb(b, k - 1)
             + Limb(a, 3) * Limb(b, k - 2) + Limb(a, 4) * Limb(b, k - 3)], 1, 0)

RECURSIVE BLtFrom(_, _, _)
BLtFrom(a, b, i) ==
    IF i = 0 THEN FALSE
    ELSE IF Limb(a, i) # Limb(b, i) THEN Limb(a, i) < Limb(b, i)
    ELSE BLtFrom(a, b, i - 1)

BLt(a, b) == BLtFrom(a, b, MaxOf(Len(a), Len(b)))

RECURSIVE TopLimb(_, _)
\* index of the highest nonzero limb at or below i, 0 when there is none
TopLimb(a, i) == IF i = 0 THEN 0 ELSE IF a[i] # 0 THEN i ELSE TopLimb(a, i - 1)

BBitLen(a) ==
    LET t == TopLimb(a, Len(a))
    IN IF t = 0 THEN 0 ELSE 14 * (t - 1) + BitLen(a[t])

\* a * 2^d
BShl(a, d) ==
    LET q == d \div 14
        p == Pow2(d % 14)
    IN Carry([i \in 1..(Len(a) + q + 1) |->
                IF i <= q THEN 0 ELSE Limb(a, i - q) * p], 1, 0)

\* a \div 2^d
BShr(a, d) ==
    LET q == d \div 14
        r == d % 14
    IN Carry([i \in 1..MaxOf(Len(a) - q, 1) |->
                (Limb(a, i + q) \div Pow2(r))
                + (Limb(a, i + q + 1) % Pow2(r)) * Pow2(14 - r)], 1, 0)

\* a % 2^d
BLow(a, d) ==
    Carry([i \in 1..((d \div 14) + 1) |->
             IF i <= d \div 14 THEN Limb(a, i) ELSE Limb(a, i) % Pow2(d % 14)], 1, 0)

\* bit i of a, the least significant being bit 0
BBit(a, i) == (Limb(a, (i \div 14) + 1) \div Pow2(i % 14)) % 2

\* the limbs of 0 <= n < 2^31, and the number held by at most three limbs
BOf(n) == <<n % Base, (n \div Base) % Base, n \div (Base * Base)>>
BInt(a) == Limb(a, 1) + Limb(a, 2) * Base + Limb(a, 3) * Base * Base

\* ------------------------------------------------------------------------
\* binary64 values: the record [s, m, e] stands for (-1)^s * m * 2^e with m
\* a limb sequence of at most 53 bits.  The C library evaluates cosf, sinf
\* and powf in double; none of its intermediates leaves the normal range.
\* ------------------------------------------------------------------------

\* the double (-1)^s * m * 2^e for m of at most 53 bits
DVal(s, m, e) ==
    [s |-> s, m |-> <<Limb(m, 1), Limb(m, 2), Limb(m, 3), Limb(m, 4)>>, e |-> e]

\* whether m * 2^-sh rounds away from its integer part: the first dropped
\* bit is set and either a lower bit is, or the integer part is odd
RoundsUp(m, sh) ==
    /\ sh > 0
    /\ BBit(m, sh - 1) = 1
    /\ (BBitLen(BLow(m, sh - 1)) # 0 \/ BBit(m, sh) = 1)

\* m * 2^-sh rounded to an integer, nearest-even
BRoundShr(m, sh) ==
    BAdd(BShr(m, sh), <<IF RoundsUp(m, sh) THEN 1 ELSE 0>>)

\* (-1)^s * m * 2^e rounded to 53 bits, nearest-even
DRound(s, m, e) ==
    DVal(s, BRoundShr(m, MaxOf(BBitLen(m) - 53, 0)), e + MaxOf(BBitLen(m) - 53, 0))

\* the sum of (-1)^sa * x * 2^e and (-1)^sb * y * 2^e, rounded once
DSumAligned(sa, x, sb, y, e) ==
    DRound(IF sa = sb \/ BLt(y, x) THEN sa ELSE IF BLt(x, y) THEN sb ELSE 0,
           IF sa = sb THEN BAdd(x, y)
           ELSE IF BLt(x, y) THEN BSub(y, x) ELSE BSub(x, y),
           e)

\* the sum of (-1)^sa * a * 2^ea and (-1)^sb * b * 2^eb, rounded once
DSum(sa, a, ea, sb, b, eb) ==
    DSumAligned(sa, BShl(a, ea - (IF ea <= eb THEN ea ELSE eb)),
                sb, BShl(b, eb - (IF ea <= eb THEN ea ELSE eb)),
                IF ea <= eb THEN ea ELSE eb)

\* double operator*, operator+, operator- and fma(a, b, c) = a * b + c
DMul(a, b) == DRound((a.s + b.s) % 2, BMul(a.m, b.m), a.e + b.e)
DAdd(a, b) == DSum(a.s, a.m, a.e, b.s, b.m, b.e)
DNeg(a) == [a EXCEPT !.s = 1 - a.s]
DSub(a, b) == DSum(a.s, a.m, a.e, 1 - b.s, b.m, b.e)
DFma(a, b, c) == DSum((a.s + b.s) % 2, BMul(a.m, b.m), a.e + b.e, c.s, c.m, c.e)

DIsZero(a) == BBitLen(a.m) = 0

DIsNegative(d) == d.s = 1 /\ ~DIsZero(d)

\* double operator<
DLt(a, b) == DIsNegative(DSub(a, b))

\* float -> double (exact), int -> double (exact)
F2D(x) == [s |-> x.s, m |-> <<x.m % Base, x.m \div Base, 0, 0>>, e |-> x.e]

I2D(n) == [s |-> IF n < 0 THEN 1 ELSE 0,
           m |-> BOf(IF n < 0 THEN 0 - n ELSE n), e |-> 0]

\* (-1)^s * m * 2^e rounded to float, after sh low bits of m are set aside
\* as the sticky part
D2FAt(s, m, e, sh) ==
    RoundPack(s, BInt(BShr(m, sh)), e + sh, BBitLen(BLow(m, sh)) # 0)

\* double -> float: round to nearest-even
D2F(d) == D2FAt(d.s, d.m, d.e, MaxOf(BBitLen(d.m) - 28, 0))

\* double -> int32, truncating (|d| < 2^31)
D2IAbs(m, e) == BInt(IF e >= 0 THEN BShl(m, e) ELSE BShr(m, 0 - e))

D2I(d) == IF d.s = 1 THEN 0 - D2IAbs(d.m, d.e) ELSE D2IAbs(d.m, d.e)

\* ------------------------------------------------------------------------
\* std::cos(float) and std::sin(float) as the C library the program is
\* linked with computes them (glibc 2.36, x86-64, the variant selected on
\* a processor with fused multiply-add): the argument is reduced modulo
\* pi/2 in double, one of two polynomials is evaluated in double and the
\* result is rounded to float.  The result is within one unit in the last
\* place of the exact value but not always the nearest float.
\* ------------------------------------------------------------------------

InvPio4 ==
    <<<<162, 0, 0>>, <<8953, 2, 0>>, <<14723, 651, 0>>,
      <<878, 3046, 10>>, <<11854, 9741, 15>>, <<3652, 3513, 8>>,
      <<1045, 14649, 6>>, <<5417, 14608, 4>>, <<10748, 4180, 4>>,
      <<15399, 5287, 1>>, <<10071, 10224, 2>>, <<6097, 12445, 15>>,
      <<4597, 7519, 2>>, <<13620, 8007, 5>>, <<13533, 2004, 13>>,
      <<7616, 5331, 15>>, <<219, 4983, 3>>, <<7010, 14083, 13>>,
      <<8853, 877, 12>>, <<5529, 11658, 13>>, <<6460, 2646, 6>>,
      <<15427, 5732, 9>>, <<912, 9457, 9>>, <<4161, 12558, 3>>>>

HpiInv == [s |-> 0, m |-> <<2179, 14119, 13062, 1303>>, e |-> 0 - 29]

Hpi == [s |-> 0, m |-> <<1443, 10786, 1014, 201>>, e |-> 0 - 49]

Pi63 == [s |-> 0, m |-> <<1443, 10786, 1014, 201>>, e |-> 0 - 111]

CosCoef ==
    <<[s |-> 0, m |-> <<1, 0, 0, 0>>, e |-> 0],
      [s |-> 1, m |-> <<6279, 15628, 16383, 511>>, e |-> 0 - 52],
      [s |-> 0, m |-> <<3865, 1050, 5438, 1365>>, e |-> 0 - 57],
      [s |-> 1, m |-> <<13725, 8808, 2174, 1456>>, e |-> 0 - 62],
      [s |-> 0, m |-> <<14531, 2543, 13360, 1636>>, e |-> 0 - 68]>>

SinCoef ==
    <<[s |-> 1, m |-> <<9731, 9814, 5445, 1365>>, e |-> 0 - 55],
      [s |-> 0, m |-> <<753, 1315, 472, 273>>, e |-> 0 - 57],
      [s |-> 1, m |-> <<13257, 14196, 5036, 409>>, e |-> 0 - 63]>>

DOne == I2D(1)

\* the cosine coefficients negated: the second coefficient table
NegCosCoef == [j \in 1..5 |-> DNeg(CosCoef[j])]

\* bits 20..30 of the bit pattern of y: the magnitude class of the argument
Top12(y) == (FloatBits(y)[1] % 32768) \div 16

\* x + x^3 * (S1 + x^2 * S2 + x^4 * S3), for x3 = x * x2
SinPolyAt(x, x2, x3) ==
    DFma(DFma(SinCoef[3], x2, SinCoef[2]), DMul(x3, x2), DFma(x3, SinCoef[1], x))

\* C0 + x^2 * C1 + x^4 * C2 + x^6 * (C3 + x^2 * C4), for x4 = x2 * x2
CosPolyAt(c, x2, x4) ==
    DFma(DFma(c[5], x2, c[4]), DMul(x4, x2), DFma(x4, c[3], DFma(c[2], x2, c[1])))

\* the sine polynomial for even n, the cosine polynomial for odd n; neg
\* selects the table with the cosine coefficients negated
SinCosPoly(x, x2, neg, n) ==
    D2F(IF n % 2 = 0 THEN SinPolyAt(x, x2, DMul(x, x2))
        ELSE CosPolyAt(IF neg THEN NegCosCoef ELSE CosCoef, x2, DMul(x2, x2)))

\* x - n * pi/2
ReduceFastAt(x, n) == [n |-> n, x |-> DFma(DNeg(I2D(n)), Hpi, x)]

\* reduction of |x| < 120: n is x * 2/pi rounded (in 2^-24 units, halves
\* upward) and the result is x - n * pi/2
ReduceFast(x) ==
    ReduceFastAt(x, (D2I(DMul(x, HpiInv)) + 8388608) \div 16777216)

\* t is the 64-bit product plus 2^61: its top two bits are n, and the rest
\* less 2^61 is the reduced argument in units of pi/2 * 2^-62
ReduceLargeOf(t) ==
    [n |-> BInt(BShr(t, 62)),
     x |-> DMul(DRound(1 - BBit(t, 61),
                       IF BBit(t, 61) = 1
                       THEN BSub(BLow(t, 62), BShl(<<1>>, 61))
                       ELSE BSub(BShl(<<1>>, 61), BLow(t, 62)),
                       0),
                Pi63)]

\* the low 64 bits of xi times 96 bits of 4/pi starting at word arr
ReduceLargeAt(xi, arr) ==
    ReduceLargeOf(BLow(BAdd(BAdd(BAdd(BShr(BMul(xi, InvPio4[arr + 9]), 32),
                                      BShl(BLow(BMul(xi, InvPio4[arr + 1]), 32), 32)),
                                 BMul(xi, InvPio4[arr + 5])),
                            BShl(<<1>>, 61)),
                       64))

\* reduction of 120 <= |y| < inf from the bits of y: the significand
\* shifted by the low three exponent bits, the words of 4/pi selected by
\* the next four
ReduceLarge(y) ==
    ReduceLargeAt(BOf(y.m * Pow2((y.e + 150) % 8)), ((y.e + 150) \div 8) % 16)

\* the reduction of a finite y with |y| >= 2^-12
Reduced(y) ==
    IF Top12(y) < 1012 THEN [n |-> 0, x |-> F2D(y)]
    ELSE IF Top12(y) < 1071 THEN ReduceFast(F2D(y))
    ELSE ReduceLarge(y)

\* a result that is not a number: (y - y) / (y - y)
InvalidF(y) == FDiv(FSub(y, y), FSub(y, y))

\* x with the sign of the quadrant: times 1, -1, -1, 1 for n % 4 = 0..3
QuadSign(x, n) == IF n % 4 = 1 \/ n % 4 = 2 THEN DNeg(x) ELSE x

\* sin or cos from the reduction red: q picks the sign of the quadrant,
\* n the polynomial
SinCosOf(red, q, n) ==
    SinCosPoly(QuadSign(red.x, q), DMul(red.x, red.x), q % 4 >= 2, n)

\* sin of a large argument takes its sign from the sign bit of y
SinOf(red, sign) == SinCosOf(red, red.n + sign, red.n)

CosOf(red) == SinCosOf(red, red.n, red.n + 1)

SinF(y) ==
    IF ~IsFin(y) THEN InvalidF(y)         \* Top12(y) >= 2040
    ELSE IF Top12(y) < 920 THEN y
    ELSE SinOf(Reduced(y), IF Top12(y) >= 1071 THEN y.s ELSE 0)

CosF(y) ==
    IF ~IsFin(y) THEN InvalidF(y)         \* Top12(y) >= 2040
    ELSE IF Top12(y) < 920 THEN FromInt(1)
    ELSE CosOf(Reduced(y))

\* ------------------------------------------------------------------------
\* std::pow(x, 2.0f) as the same library computes it (powf): log2 |x| from
\* a 16-entry table and a polynomial, doubled, then 2^that from a 32-entry
\* table and a polynomial, all in double, rounded to float at the end.  An
\* optimising build replaces the call by x * x: PowSquare has both values.
\* ------------------------------------------------------------------------

Log2InvC ==
    <<[s |-> 0, m |-> <<14815, 13297, 3939, 716>>, e |-> 0 - 51],
      [s |-> 0, m |-> <<2109, 10942, 7892, 1372>>, e |-> 0 - 52],
      [s |-> 0, m |-> <<267, 15420, 5433, 82>>, e |-> 0 - 48],
      [s |-> 0, m |-> <<901, 736, 6491, 1266>>, e |-> 0 - 52],
      [s |-> 0, m |-> <<9381, 12833, 4496, 1219>>, e |-> 0 - 52],
      [s |-> 0, m |-> <<7285, 3937, 12049, 36>>, e |-> 0 - 47],
      [s |-> 0, m |-> <<13375, 10344, 13476, 1134>>, e |-> 0 - 52],
      [s |-> 0, m |-> <<13021, 8469, 6855, 548>>, e |-> 0 - 51],
      [s |-> 0, m |-> <<167, 1636, 5108, 1061>>, e |-> 0 - 52],
      [s |-> 0, m |-> <<1, 0, 0, 0>>, e |-> 0],
      [s |-> 0, m |-> <<4587, 15770, 563, 486>>, e |-> 0 - 51],
      [s |-> 0, m |-> <<4949, 9184, 4697, 57>>, e |-> 0 - 48],
      [s |-> 0, m |-> <<15987, 11989, 434, 868>>, e |-> 0 - 52],
      [s |-> 0, m |-> <<10797, 3718, 11542, 1648>>, e |-> 0 - 53],
      [s |-> 0, m |-> <<493, 3553, 11872, 1569>>, e |-> 0 - 53],
      [s |-> 0, m |-> <<9265, 10918, 16103, 748>>, e |-> 0 - 52]>>

Log2LogC ==
    <<[s |-> 1, m |-> <<12313, 11864, 11365, 1983>>, e |-> 0 - 54],
      [s |-> 1, m |-> <<16169, 13012, 11680, 432>>, e |-> 0 - 52],
      [s |-> 1, m |-> <<14203, 10366, 6320, 1488>>, e |-> 0 - 54],
      [s |-> 1, m |-> <<3963, 10679, 7825, 1255>>, e |-> 0 - 54],
      [s |-> 1, m |-> <<13873, 4042, 6591, 1031>>, e |-> 0 - 54],
      [s |-> 1, m |-> <<14255, 1742, 15389, 101>>, e |-> 0 - 51],
      [s |-> 1, m |-> <<15519, 3772, 7737, 1214>>, e |-> 0 - 55],
      [s |-> 1, m |-> <<9047, 16248, 814, 406>>, e |-> 0 - 54],
      [s |-> 1, m |-> <<12263, 11406, 15597, 845>>, e |-> 0 - 56],
      [s |-> 0, m |-> <<0, 0, 0, 0>>, e |-> 0],
      [s |-> 0, m |-> <<13629, 15507, 3241, 1230>>, e |-> 0 - 56],
      [s |-> 0, m |-> <<2269, 10353, 13642, 654>>, e |-> 0 - 54],
      [s |-> 0, m |-> <<12905, 5513, 8282, 976>>, e |-> 0 - 54],
      [s |-> 0, m |-> <<6471, 12486, 6423, 320>>, e |-> 0 - 52],
      [s |-> 0, m |-> <<13311, 5645, 7480, 196>>, e |-> 0 - 51],
      [s |-> 0, m |-> <<7923, 3761, 657, 462>>, e |-> 0 - 52]>>

Log2Poly ==
    <<[s |-> 0, m |-> <<11787, 9509, 8556, 1181>>, e |-> 0 - 54],
      [s |-> 1, m |-> <<9021, 235, 2893, 739>>, e |-> 0 - 53],
      [s |-> 0, m |-> <<15069, 12958, 12454, 1969>>, e |-> 0 - 54],
      [s |-> 1, m |-> <<7897, 9311, 10894, 184>>, e |-> 0 - 50],
      [s |-> 0, m |-> <<14379, 5290, 5238, 1477>>, e |-> 0 - 52]>>

Exp2Poly ==
    <<[s |-> 0, m |-> <<2277, 2961, 11233, 454>>, e |-> 0 - 55],
      [s |-> 0, m |-> <<1267, 1003, 15589, 1967>>, e |-> 0 - 55],
      [s |-> 0, m |-> <<10603, 15896, 12823, 709>>, e |-> 0 - 52]>>

Exp2Tab ==
    <<<<0, 0, 0, 1024>>, <<1396, 3158, 6925, 1046>>,
      <<2319, 13286, 5510, 1069>>, <<6993, 73, 12317, 1092>>,
      <<4475, 12789, 11139, 1116>>, <<14762, 1442, 2163, 1141>>,
      <<8760, 14805, 1958, 1166>>, <<7905, 5247, 10719, 1191>>,
      <<14101, 10438, 12256, 1217>>, <<10699, 7402, 6771, 1244>>,
      <<13346, 12360, 10852, 1271>>, <<2349, 390, 8326, 1299>>,
      <<10791, 5336, 15789, 1327>>, <<3970, 6773, 693, 1357>>,
      <<5161, 13601, 12413, 1386>>, <<5509, 233, 2027, 1417>>,
      <<15309, 6652, 2534, 1448>>, <<8052, 9137, 14174, 1479>>,
      <<391, 4012, 4423, 1512>>, <<3603, 9523, 6297, 1545>>,
      <<8411, 2218, 3668, 1579>>, <<1509, 823, 13179, 1613>>,
      <<12432, 2703, 2328, 1649>>, <<9565, 2296, 4155, 1685>>,
      <<5037, 9579, 2553, 1722>>, <<7751, 3053, 14191, 1759>>,
      <<4764, 13845, 6589, 1798>>, <<4201, 13246, 12813, 1837>>,
      <<9351, 13294, 397, 1878>>, <<7007, 3566, 2419, 1919>>,
      <<4314, 2706, 2810, 1961>>, <<1344, 11705, 1893, 2004>>>>

Exp2Shift == [s |-> 0, m |-> <<3, 0, 0, 0>>, e |-> 46]

Exp2Over == [s |-> 0, m |-> <<5489, 16199, 16383, 2047>>, e |-> 0 - 46]

Exp2Under == I2D(0 - 150)

\* the log2 polynomial in r, added to y0, for r2 = r * r
Log2Eval(r, y0, r2) ==
    DFma(DFma(Log2Poly[1], r, Log2Poly[2]), DMul(r2, r2),
         DFma(r2, DFma(Log2Poly[3], r, Log2Poly[4]), DFma(r, Log2Poly[5], y0)))

Log2Of(r, y0) == Log2Eval(r, y0, DMul(r, r))

\* the float whose bits are those of 0x3f330000 plus the low 23 bits of tmp
Log2Z(iz) ==
    [s |-> 0, m |-> BOf(Pow2(23) + (iz % Pow2(23))), e |-> (iz \div Pow2(23)) - 150]

\* tmp is the bit pattern of |x| less 0x3f330000: its bits 19..22 select
\* the table entry i, its bits from 23 up are the exponent k
Log2At(tmp, i) ==
    Log2Of(DFma(Log2Z(1060306944 + (tmp % Pow2(23))), Log2InvC[i + 1], DNeg(DOne)),
           DAdd(Log2LogC[i + 1], I2D(tmp \div Pow2(23))))

Log2Bits(tmp) == Log2At(tmp, (tmp \div Pow2(19)) % 16)

\* log2 of the finite nonzero |x| (a subnormal x is scaled first)
Log2F(x) ==
    Log2Bits((NormE(x) + 150) * Pow2(23) + (NormM(x) - Pow2(23)) - 1060306944)

\* 2^(k/32) times the polynomial in r
Exp2Eval(r, k) ==
    D2F(DMul(DFma(DFma(Exp2Poly[1], r, Exp2Poly[2]), DMul(r, r),
                  DFma(r, Exp2Poly[3], DOne)),
             [s |-> 0, m |-> Exp2Tab[(k % 32) + 1], e |-> (k \div 32) - 52]))

\* kd is xd rounded to a multiple of 1/32
Exp2At(xd, kd) == Exp2Eval(DSub(xd, kd), D2I([kd EXCEPT !.e = @ + 5]))

\* 2^xd for -150 < xd < 128
Exp2F(xd) == Exp2At(xd, DSub(DAdd(xd, Exp2Shift), Exp2Shift))

\* 2^ylogx with overflow to infinity and underflow to zero
Exp2Checked(ylogx) ==
    IF DLt(Exp2Over, ylogx) THEN FInf(0)
    ELSE IF ~DLt(Exp2Under, ylogx) THEN FZero(0)
    ELSE Exp2F(ylogx)

\* powf(x, 2.0f)
PowF(x) ==
    IF ~IsFin(x) \/ IsZero(x) THEN FMul(x, x)
    ELSE Exp2Checked(DMul(F2D(FromInt(2)), Log2F(x)))

\* The values std::pow(x, 2.0f) can have: the library's powf(x, 2.0f) where
\* the build calls it, x * x where the compiler folds the call (as an
\* optimising build does).  The two differ in the last bit for some x.
PowSquare(x) == {PowF(x), FMul(x, x)}

\* ------------------------------------------------------------------------
\* Simulation constants (main.cpp 14-26) and physics setup (main.cpp 112-121)
\* ------------------------------------------------------------------------

SCREEN_WIDTH == 1800
SCREEN_HEIGHT == 1000
NUM_PENDULUMS == 25
BASE_OSCILLATIONS == 50

TOTAL_PERIOD_S == FromInt(60)
MAX_AMPLITUDE_DEG == FromInt(22)
BOB_RADIUS == FromInt(12)
STRING_COLOR == <<70, 70, 90>>

\* std::numbers::pi_v<float> = 0x40490fdb
pi == Pack(0, 13176795, 0 - 22)
g == Lit(981, 100)
maxAmplitudeRad == FMul(MAX_AMPLITUDE_DEG, FDiv(pi, FromInt(180)))

longestPeriod == FDiv(TOTAL_PERIOD_S, FromInt(BASE_OSCILLATIONS))
\* longestPhysicsL and pixelsPerMeter are the sets of the values the
\* variables can have, one for each value of std::pow
longestPhysicsL ==
    {FMul(g, sq) : sq \in PowSquare(FDiv(longestPeriod, FMul(FromInt(2), pi)))}
maxVisualLength == FMul(FromInt(SCREEN_HEIGHT), Lit(8, 10))
pixelsPerMeter == {FDiv(maxVisualLength, l) : l \in longestPhysicsL}
pivotPoint == <<FDiv(FromInt(SCREEN_WIDTH), FromInt(2)), FromInt(50)>>

\* ------------------------------------------------------------------------
\* getColorFromRatio (main.cpp 76-86)
\* ------------------------------------------------------------------------

\* the integer part of a finite x with |x| < 2^24, truncated toward zero
TruncAbs(x) ==
    IF x.e >= 0 THEN x.m * Pow2(x.e)
    ELSE IF 0 - x.e > 24 THEN 0
    ELSE x.m \div Pow2(0 - x.e)

\* a conversion that rounds to the nearest integer, halves upward
CastU8Nearest(x) ==
    IF IsFin(x) /\ FLt(FromInt(0 - 1), x) /\ FLt(x, FromInt(256))
    THEN {IF x.s = 1 THEN 0 ELSE TruncAbs(FAdd(x, Lit(1, 2)))}
    ELSE 0..255

\* static_cast<std::uint8_t>(x): the value truncated toward zero when that
\* is in 0..255; otherwise the conversion is undefined and any byte may
\* result
CastU8(x) ==
    IF IsFin(x) /\ FLt(FromInt(0 - 1), x) /\ FLt(x, FromInt(256))
    THEN {IF x.s = 1 THEN 0 ELSE TruncAbs(x)}
    ELSE 0..255

RampR(ratio) == FMax(FromInt(0), FSub(FromInt(1), FMul(ratio, FromInt(2))))
RampG(ratio) == FSub(FromInt(1), FMul(FAbs(FSub(ratio, Lit(1, 2))), FromInt(2)))
RampB(ratio) == FMax(FromInt(0), FMul(FSub(ratio, Lit(1, 2)), FromInt(2)))

\* the colours getColorFromRatio(ratio) can return
getColorFromRatio(ratio) ==
    {<<r, gr, b>> : r \in CastU8(FMul(RampR(ratio), FromInt(255))),
                    gr \in CastU8(FMul(RampG(ratio), FromInt(255))),
                    b \in CastU8(FMul(RampB(ratio), FromInt(255)))}

\* ------------------------------------------------------------------------
\* struct Pendulum (main.cpp 32-74)
\* ------------------------------------------------------------------------

\* a value-initialised Pendulum: std::vector<Pendulum> pendulums(N)
DefaultPendulum ==
    [angularFrequency |-> FZero(0), visualLength |-> FZero(0),
     amplitudeRad |-> FZero(0), pivotPoint |-> <<FZero(0), FZero(0)>>,
     string0 |-> <<FZero(0), FZero(0)>>, string1 |-> <<FZero(0), FZero(0)>>,
     bobPos |-> <<FZero(0), FZero(0)>>,
     bobColor |-> <<255, 255, 255>>, outlineColor |-> <<255, 255, 255>>]

\* Pendulum::setup
PendulumSetup(p, freq, length, amplitude, pivot, bobColor) ==
    [p EXCEPT !.angularFrequency = freq,
              !.visualLength = length,
              !.amplitudeRad = amplitude,
              !.pivotPoint = pivot,
              !.string0 = pivot,
              !.bobColor = bobColor,
              !.outlineColor = <<bobColor[1] \div 2, bobColor[2] \div 2, bobColor[3] \div 2>>]

\* the local currentAngle of Pendulum::update
CurrentAngle(p, t) == FMul(p.amplitudeRad, CosF(FMul(p.angularFrequency, t)))

\* an update that swings the bob from where it was instead of from the pivot
BobPositionAccumulating(p, t) ==
    LET currentAngle == CurrentAngle(p, t)
    IN <<FAdd(p.bobPos[1], FMul(p.visualLength, SinF(currentAngle))),
         FAdd(p.bobPos[2], FMul(p.visualLength, CosF(currentAngle)))>>

\* the local pos of Pendulum::update
BobPosition(p, t) ==
    LET currentAngle == CurrentAngle(p, t)
    IN <<FAdd(p.pivotPoint[1], FMul(p.visualLength, SinF(currentAngle))),
         FAdd(p.pivotPoint[2], FMul(p.visualLength, CosF(currentAngle)))>>

\* Pendulum::update
PendulumUpdate(p, t) ==
    LET pos == BobPosition(p, t)
    IN [p EXCEPT !.bobPos = pos, !.string1 = pos]

\* ------------------------------------------------------------------------
\* Initialize Pendulums (main.cpp 129-137), i = 0 .. N-1
\* ------------------------------------------------------------------------

\* periods that step only at every second pendulum
PeriodPaired(i) == FDiv(TOTAL_PERIOD_S, FromInt(BASE_OSCILLATIONS + 2 * (i \div 2)))

\* frequencies of half a turn per period
AngularFreqHalf(i) == FDiv(pi, FDiv(TOTAL_PERIOD_S, FromInt(BASE_OSCILLATIONS + i)))

Period(i) == FDiv(TOTAL_PERIOD_S, FromInt(BASE_OSCILLATIONS + i))
AngularFreq(i) == FDiv(FMul(FromInt(2), pi), Period(i))
\* the values physicsLength and visualLength can have, as std::pow decides
PhysicsLength(i) ==
    {FMul(g, sq) : sq \in PowSquare(FDiv(Period(i), FMul(FromInt(2), pi)))}
VisualLength(i) == {FMul(l, ppm) : l \in PhysicsLength(i), ppm \in pixelsPerMeter}
ColorRatio(i, n) == FDiv(FromInt(i), FromInt(n - 1))

\* the pendulums one iteration of the loop can leave in pendulums[i]
SetupOutcomes(p, i, n) ==
    {PendulumSetup(p, AngularFreq(i), len, maxAmplitudeRad, pivotPoint, c) :
        len \in VisualLength(i), c \in getColorFromRatio(ColorRatio(i, n))}

\* ------------------------------------------------------------------------
\* main (main.cpp 88-208): the state of the running program
\* ------------------------------------------------------------------------

VARIABLES
    numPendulums,   \* NUM_PENDULUMS of the build
    pendulums,      \* std::vector<Pendulum> pendulums, indexed 1..numPendulums
    idx,            \* the variable i of the initialisation loop
    totalSimTime,
    timeScale,
    isPaused,
    dt,             \* the dt of the current frame
    windowOpen,     \* window.isOpen()
    pc,             \* where main is
    polled,         \* events handled by the poll loop of the current frame
    frame,          \* frames displayed
    shown,          \* the bob positions handed to window.display()
    hist,           \* what the clock has been through, see NoHistory
    ratioIn,        \* argument of a call of getColorFromRatio
    colorOut        \* what the call returned, <<>> before it

vars == <<numPendulums, pendulums, idx, totalSimTime, timeScale, isPaused, dt,
          windowOpen, pc, polled, frame, shown, hist, ratioIn, colorOut>>

simVars == <<numPendulums, pendulums, idx, totalSimTime, timeScale, isPaused,
             dt, windowOpen, polled, frame, shown, hist>>

MaxPendulums == 2
MaxSetupPendulums == 25
MaxEventsPerFrame == 1
MaxFrames == 3
MaxClockFrames == 4
MaxClockSamples == 4
MaxHeld == 600
MaxRatioDen == 24

\* frames followed: MaxFrames of the program with its pendulums,
\* MaxClockFrames of the clock alone
FrameLimit == IF numPendulums = 0 THEN MaxClockFrames ELSE MaxFrames

\* sf::Time::asSeconds of a clock reading in microseconds
AsSeconds(us) == FDiv(FromInt(us), FromInt(1000000))

\* readings of deltaClock.restart() in microseconds: no time elapsed, a
\* frame at the 120 Hz limit of line 107, a 60 Hz frame, a frame stalled for
\* a minute, and then the shortest reading and a 30 Hz frame
ClockSamples == <<0, 8333, 16667, 60000000, 1, 33333>>

\* the readings followed: the first MaxClockSamples of ClockSamples
FrameMicros == {ClockSamples[k] : k \in 1..MaxClockSamples}

\* the factor 1.2f of the speed keys
SpeedStep == Lit(12, 10)

\* The history kept for the properties; the program has no such variable.
\*   reset         "reset" after an R key, "first" after the first advance
\*                 made while not paused that follows it, else "none"
\*   before        totalSimTime as the last R key found it
\*   resetPaused   the last R key arrived while paused
\*   held          totalSimTime when the current pause began
\*   pausedFrames  advances made during the current pause
\*   pausedKeys    a speed key arrived during the current pause
\*   pauseReset    an R key arrived during the current pause
\*   updated       the totalSimTime of the last for_each over the pendulums
NoHistory ==
    [reset |-> "none", before |-> FZero(0), resetPaused |-> FALSE,
     held |-> FZero(0), pausedFrames |-> 0, pausedKeys |-> FALSE,
     pauseReset |-> FALSE, updated |-> FZero(0)]

InitLocals ==
    /\ totalSimTime = FZero(0)
    /\ isPaused = FALSE
    /\ dt = FZero(0)
    /\ windowOpen = TRUE
    /\ polled = 0
    /\ frame = 0
    /\ shown = <<>>
    /\ hist = NoHistory
    /\ ratioIn = FZero(0)
    /\ colorOut = <<>>

\* the window is open and the vector holds value-initialised pendulums
Init ==
    /\ numPendulums \in 2..MaxPendulums
    /\ pendulums = [i \in 1..numPendulums |-> DefaultPendulum]
    /\ idx = 0
    /\ pc = "setup"
    /\ timeScale = FromInt(1)
    /\ InitLocals

\* one iteration of the initialisation loop (129-137)
SetupStep ==
    /\ pc = "setup"
    /\ idx < numPendulums
    /\ \E p \in SetupOutcomes(pendulums[idx + 1], idx, numPendulums) :
          pendulums' = [pendulums EXCEPT ![idx + 1] = p]
    /\ idx' = idx + 1
    /\ UNCHANGED <<numPendulums, totalSimTime, timeScale, isPaused, dt,
                   windowOpen, pc, polled, frame, shown, hist,
                   ratioIn, colorOut>>

\* the loop ends; deltaClock, totalSimTime, timeScale, isPaused (139-142)
SetupDone ==
    /\ pc = "setup"
    /\ idx = numPendulums
    /\ totalSimTime' = FZero(0)
    /\ timeScale' = FromInt(1)
    /\ isPaused' = FALSE
    /\ pc' = "loop"
    /\ UNCHANGED <<numPendulums, pendulums, idx, dt, windowOpen, polled,
                   frame, shown, hist, ratioIn, colorOut>>

\* while (window.isOpen()) (145)
LoopTest ==
    /\ pc = "loop"
    /\ windowOpen => frame < FrameLimit
    /\ pc' = IF windowOpen THEN "poll" ELSE "exit"
    /\ polled' = 0
    /\ UNCHANGED <<numPendulums, pendulums, idx, totalSimTime, timeScale,
                   isPaused, dt, windowOpen, frame, shown, hist,
                   ratioIn, colorOut>>

\* window.pollEvent() returns an event (149); a closed window has none
Polling ==
    /\ pc = "poll"
    /\ windowOpen
    /\ polled < MaxEventsPerFrame
    /\ polled' = polled + 1
    /\ UNCHANGED <<numPendulums, pendulums, idx, dt, pc, frame, shown,
                   ratioIn, colorOut>>

\* sf::Event::Closed (152-155)
EvClosed ==
    /\ Polling
    /\ windowOpen' = FALSE
    /\ UNCHANGED <<totalSimTime, timeScale, isPaused, hist>>

\* Key::Space (159-161)
KeySpace ==
    /\ Polling
    /\ isPaused' = ~isPaused
    /\ hist' = [hist EXCEPT !.held = IF isPaused THEN FZero(0) ELSE totalSimTime,
                            !.pausedFrames = 0,
                            !.pausedKeys = FALSE,
                            !.pauseReset = FALSE]
    /\ UNCHANGED <<totalSimTime, timeScale, windowOpen>>

\* a reset that keeps the accumulated time
ResetTimeKept == totalSimTime

\* the value Key::R stores in totalSimTime
ResetTime == FZero(0)

\* Key::R (162-164)
KeyR ==
    /\ Polling
    /\ totalSimTime' = ResetTime
    /\ hist' = [hist EXCEPT !.reset = "reset",
                            !.before = totalSimTime,
                            !.resetPaused = isPaused,
                            !.pauseReset = isPaused]
    /\ UNCHANGED <<timeScale, isPaused, windowOpen>>

\* timeScale *= 1.2f
SpeedUp(ts) == FMul(ts, SpeedStep)

\* a speed-down that subtracts the step
SpeedDownBySubtracting(ts) == FSub(ts, SpeedStep)

\* timeScale /= 1.2f
SpeedDown(ts) == FDiv(ts, SpeedStep)

\* Key::Up, Key::Right (165-168)
KeySpeedUp ==
    /\ Polling
    /\ timeScale' = SpeedUp(timeScale)
    /\ hist' = [hist EXCEPT !.pausedKeys = isPaused]
    /\ UNCHANGED <<totalSimTime, isPaused, windowOpen>>

\* Key::Down, Key::Left (169-172)
KeySpeedDown ==
    /\ Polling
    /\ timeScale' = SpeedDown(timeScale)
    /\ hist' = [hist EXCEPT !.pausedKeys = isPaused]
    /\ UNCHANGED <<totalSimTime, isPaused, windowOpen>>

\* Key::Escape (173-175)
KeyEscape ==
    /\ Polling
    /\ windowOpen' = FALSE
    /\ UNCHANGED <<totalSimTime, timeScale, isPaused, hist>>

\* any other key (176), sf::Event::Resized (180-183, the view only), or an
\* event of a type the loop does not look at
EvIgnored ==
    /\ Polling
    /\ UNCHANGED <<totalSimTime, timeScale, isPaused, windowOpen, hist>>

\* window.pollEvent() returns nothing: the poll loop ends
PollDone ==
    /\ pc = "poll"
    /\ pc' = "advance"
    /\ UNCHANGED <<simVars, ratioIn, colorOut>>

\* an advance that ignores isPaused
NextSimTimeUnpaused(d) == FAdd(totalSimTime, FMul(d, timeScale))

\* totalSimTime after lines 188-190 for a frame time d
NextSimTime(d) ==
    IF ~isPaused THEN FAdd(totalSimTime, FMul(d, timeScale)) ELSE totalSimTime

\* Update (187-190)
Advance ==
    /\ pc = "advance"
    /\ \E us \in FrameMicros :
          /\ dt' = AsSeconds(us)
          /\ totalSimTime' = NextSimTime(AsSeconds(us))
    /\ hist' = [hist EXCEPT
                   !.reset = IF hist.reset # "reset" THEN "none"
                             ELSE IF isPaused THEN "reset" ELSE "first",
                   !.before = IF hist.reset = "reset" THEN @ ELSE FZero(0),
                   !.resetPaused = (hist.reset = "reset" /\ @),
                   !.pausedFrames = IF isPaused THEN @ + 1 ELSE 0]
    /\ pc' = "update"
    /\ UNCHANGED <<numPendulums, pendulums, idx, timeScale, isPaused,
                   windowOpen, polled, frame, shown, ratioIn, colorOut>>

\* an update loop in which only the first pendulum sees this frame's time
UpdateTimeStale(i) == IF i = 1 THEN totalSimTime ELSE FSub(totalSimTime, dt)

\* the time the lambda of for_each passes to pendulums[i].update
UpdateTime(i) == totalSimTime

\* std::ranges::for_each(pendulums, ...) (192-194)
UpdateAll ==
    /\ pc = "update"
    /\ pendulums' = [i \in 1..numPendulums |->
                        PendulumUpdate(pendulums[i], UpdateTime(i))]
    /\ hist' = [hist EXCEPT !.updated = totalSimTime]
    /\ pc' = "draw"
    /\ UNCHANGED <<numPendulums, idx, totalSimTime, timeScale, isPaused, dt,
                   windowOpen, polled, frame, shown, ratioIn, colorOut>>

\* Draw (197-204)
Draw ==
    /\ pc = "draw"
    /\ shown' = [i \in 1..numPendulums |->
                    [string0 |-> pendulums[i].string0,
                     string1 |-> pendulums[i].string1,
                     bobPos |-> pendulums[i].bobPos,
                     bobColor |-> pendulums[i].bobColor]]
    /\ frame' = frame + 1
    /\ pc' = "loop"
    /\ UNCHANGED <<numPendulums, pendulums, idx, totalSimTime, timeScale,
                   isPaused, dt, windowOpen, polled, hist, ratioIn,
                   colorOut>>

NextLoop ==
    \/ LoopTest
    \/ EvClosed
    \/ KeySpace
    \/ KeyR
    \/ KeySpeedUp
    \/ KeySpeedDown
    \/ KeyEscape
    \/ EvIgnored
    \/ PollDone
    \/ Advance
    \/ UpdateAll
    \/ Draw

Next ==
    \/ SetupStep
    \/ SetupDone
    \/ NextLoop

Spec == Init /\ [][Next]_vars

\* ------------------------------------------------------------------------
\* The initialisation loop alone, for every pendulum count up to the
\* program's
\* ------------------------------------------------------------------------

InitSetup ==
    /\ numPendulums \in 1..MaxSetupPendulums
    /\ pendulums = [i \in 1..numPendulums |-> DefaultPendulum]
    /\ idx = 0
    /\ pc = "setup"
    /\ timeScale = FromInt(1)
    /\ InitLocals

NextSetup ==
    \/ SetupStep
    \/ SetupDone

SpecSetup == InitSetup /\ [][NextSetup]_vars

\* ------------------------------------------------------------------------
\* The clock alone: the frame loop of a build without pendulums, which play
\* no part in totalSimTime, timeScale and isPaused
\* ------------------------------------------------------------------------

InitClock ==
    /\ numPendulums = 0
    /\ pendulums = <<>>
    /\ idx = 0
    /\ pc = "loop"
    /\ timeScale = FromInt(1)
    /\ InitLocals

SpecClock == InitClock /\ [][NextLoop]_vars

\* ------------------------------------------------------------------------
\* One frame of the clock after a speed key was held down
\* ------------------------------------------------------------------------

RECURSIVE HeldSpeed(_, _, _)
\* ts after n more Up/Right events (up) or Down/Left events (not up): half
\* of the events, then the other half; an infinite timeScale stays as it is
HeldSpeed(ts, n, up) ==
    IF n = 0 \/ IsInf(ts) THEN ts
    ELSE IF n = 1 THEN IF up THEN SpeedUp(ts) ELSE SpeedDown(ts)
    ELSE HeldSpeed(HeldSpeed(ts, n \div 2, up), n - n \div 2, up)

RECURSIVE HeldChain(_, _, _)
\* ts and the values the first n such events give it, one after the other
HeldChain(ts, n, up) ==
    IF n = 0 \/ IsInf(ts) THEN {ts}
    ELSE HeldChain(ts, n \div 2, up)
            \cup HeldChain(HeldSpeed(ts, n \div 2 + 1, up), n - n \div 2 - 1, up)

\* timeScale after at most MaxHeld events of one speed key
HeldSpeeds ==
    HeldChain(FromInt(1), MaxHeld, TRUE) \cup HeldChain(FromInt(1), MaxHeld, FALSE)

\* the first frame had no event and took the third clock reading; the key
\* events of the second frame's poll loop have been handled
InitHeld ==
    /\ numPendulums = 0
    /\ pendulums = <<>>
    /\ idx = 0
    /\ pc = "poll"
    /\ timeScale \in HeldSpeeds
    /\ totalSimTime = FMul(AsSeconds(ClockSamples[3]), FromInt(1))
    /\ isPaused = FALSE
    /\ dt = AsSeconds(ClockSamples[3])
    /\ windowOpen = TRUE
    /\ polled = 0
    /\ frame = 1
    /\ shown = <<>>
    /\ hist = [NoHistory EXCEPT !.updated = totalSimTime]
    /\ ratioIn = FZero(0)
    /\ colorOut = <<>>

\* the rest of the frame: more events, the advance, the updates, the drawing
NextFrame ==
    \/ EvClosed
    \/ KeySpace
    \/ KeyR
    \/ KeySpeedUp
    \/ KeySpeedDown
    \/ KeyEscape
    \/ EvIgnored
    \/ PollDone
    \/ Advance
    \/ UpdateAll
    \/ Draw

SpecHeld == InitHeld /\ [][NextFrame]_vars

\* ------------------------------------------------------------------------
\* Pendulum::update at sampled simulation times, for the program's
\* NUM_PENDULUMS pendulums
\* ------------------------------------------------------------------------

MaxTimeDiv == 40

\* the times k/MaxTimeDiv of TOTAL_PERIOD_S, from 0 to TOTAL_PERIOD_S
SampleTimes ==
    {FDiv(FMul(FromInt(k), TOTAL_PERIOD_S), FromInt(MaxTimeDiv)) : k \in 0..MaxTimeDiv}

RECURSIVE SetupAll(_, _)
\* the vectors the first k iterations of the initialisation loop can leave
SetupAll(k, n) ==
    IF k = 0 THEN {<<>>}
    ELSE {Append(done, p) : done \in SetupAll(k - 1, n),
                            p \in SetupOutcomes(DefaultPendulum, k - 1, n)}

\* a frame whose advance produced a sampled time
InitUpdate ==
    /\ numPendulums = NUM_PENDULUMS
    /\ pendulums \in SetupAll(NUM_PENDULUMS, NUM_PENDULUMS)
    /\ idx = NUM_PENDULUMS
    /\ pc = "update"
    /\ timeScale = FromInt(1)
    /\ totalSimTime \in SampleTimes
    /\ isPaused = FALSE
    /\ dt = FZero(0)
    /\ windowOpen = TRUE
    /\ polled = 0
    /\ frame = 0
    /\ shown = <<>>
    /\ hist = NoHistory
    /\ ratioIn = FZero(0)
    /\ colorOut = <<>>

NextUpdate ==
    \/ UpdateAll
    \/ Draw

SpecUpdate == InitUpdate /\ [][NextUpdate]_vars

\* ------------------------------------------------------------------------
\* getColorFromRatio called on its own
\* ------------------------------------------------------------------------

\* the ratios i/d of [0, 1], which include every colorRatio of the
\* initialisation loop, and two ratios outside [0, 1]
RatioInputs ==
    {FDiv(FromInt(i), FromInt(d)) : i \in 0..MaxRatioDen, d \in 1..MaxRatioDen}
        \ {r \in {FDiv(FromInt(i), FromInt(d)) : i \in 0..MaxRatioDen, d \in 1..MaxRatioDen} :
               FLt(FromInt(1), r)}

OutsideInputs == {FDiv(FromInt(0 - 1), FromInt(2)), FDiv(FromInt(3), FromInt(2))}

InitColor ==
    /\ numPendulums = 0
    /\ pendulums = <<>>
    /\ idx = 0
    /\ pc = "color"
    /\ timeScale = FromInt(1)
    /\ totalSimTime = FZero(0)
    /\ isPaused = FALSE
    /\ dt = FZero(0)
    /\ windowOpen = TRUE
    /\ polled = 0
    /\ frame = 0
    /\ shown = <<>>
    /\ hist = NoHistory
    /\ ratioIn \in RatioInputs \cup OutsideInputs
    /\ colorOut = <<>>

ColorCall ==
    /\ pc = "color"
    /\ colorOut = <<>>
    /\ colorOut' \in getColorFromRatio(ratioIn)
    /\ UNCHANGED <<simVars, pc, ratioIn>>

SpecColor == InitColor /\ [][ColorCall]_vars

\* ------------------------------------------------------------------------
\* Properties of the frame loop
\* ------------------------------------------------------------------------

\* totalSimTime is what it was when the pause began, unless an R key came
PauseHolds == (isPaused /\ ~hist.pauseReset) => totalSimTime = hist.held

\* C1: while isPaused holds, no step other than the R key changes
\* totalSimTime: an advance made while paused leaves it alone whatever dt and
\* timeScale are, and so do the speed keys and every other event; so through
\* all the frames of a pause without an R key totalSimTime is the value it
\* had when the pause began.
C1_PauseInvariance ==
    /\ []PauseHolds
    /\ [][(isPaused /\ ~KeyR) => totalSimTime' = totalSimTime]_vars

\* simulated time had run when the pause began; the pause has lasted two
\* frames and more, a speed key came during it, and the frame just advanced
\* with dt > 0
C1_Witness ==
    /\ pc = "update"
    /\ isPaused
    /\ hist.pausedFrames >= 2
    /\ hist.pausedKeys
    /\ ~hist.pauseReset
    /\ FLt(FZero(0), dt)
    /\ FLt(FZero(0), totalSimTime)

\* C2: after an R key and the first advance made while not paused that
\* follows it, totalSimTime is the float product dt * timeScale of that
\* advance, whatever had been accumulated before.
C2_ResetThenAdvance ==
    (pc = "update" /\ hist.reset = "first") =>
        totalSimTime = FMul(dt, timeScale)

\* simulated time had run, the R key came during a pause, the pause ended,
\* and the frame advanced with dt > 0 and a timeScale changed by a speed key
C2_Witness ==
    /\ pc = "update"
    /\ hist.reset = "first"
    /\ hist.resetPaused
    /\ FLt(FZero(0), hist.before)
    /\ FLt(FZero(0), dt)
    /\ ~FEq(timeScale, FromInt(1))

\* the steps of one frame, in order
FrameOrder ==
    /\ pc = "advance" => pc' = "update"
    /\ pc = "update" => pc' = "draw"
    /\ pc = "draw" => pc' = "loop"
    /\ totalSimTime' # totalSimTime => pc \in {"poll", "advance"}
    /\ pendulums' # pendulums => pc \in {"setup", "update"}
    /\ shown' # shown => pc = "draw"

\* the updates of the frame ran with the time its advance produced, and
\* every bob and string end handed to display() is the position of its
\* pendulum at that time
ShownAtFrameTime ==
    (pc = "loop" /\ frame > 0) =>
        /\ hist.updated = totalSimTime
        /\ \A i \in 1..numPendulums :
              /\ shown[i].bobPos = BobPosition(pendulums[i], totalSimTime)
              /\ shown[i].string1 = shown[i].bobPos
              /\ shown[i].string0 = pendulums[i].pivotPoint

\* C3: in every frame the advance comes before the updates and the updates
\* before the drawing; totalSimTime changes only in the poll loop and the
\* advance, the pendulums only in the update, the displayed positions only
\* in the drawing; and each displayed frame shows every pendulum at the one
\* totalSimTime its advance produced.
C3_FrameOrdering == []ShownAtFrameTime /\ [][FrameOrder]_vars

\* the second frame was displayed with time running
C3_Witness ==
    /\ pc = "loop"
    /\ frame = 2
    /\ ~isPaused
    /\ FLt(FZero(0), dt)
    /\ FLt(dt, totalSimTime)

\* pendulum i (1-based) of n as the initialisation loop leaves it
FreshPendulum(i, n) == CHOOSE p \in SetupOutcomes(DefaultPendulum, i - 1, n) : TRUE

\* after the updates of a frame every pendulum is what a freshly set-up
\* pendulum of the same index is after one update with the current time
AsFreshlyUpdated ==
    pc = "draw" =>
        \A i \in 1..numPendulums :
            pendulums[i] = PendulumUpdate(FreshPendulum(i, numPendulums), totalSimTime)

\* an update with the time of the update before it changes no pendulum, and
\* no update changes a configuration field
UpdateSteps ==
    pc = "update" =>
        /\ (frame > 0 /\ totalSimTime = hist.updated) => pendulums' = pendulums
        /\ \A i \in 1..numPendulums :
              /\ pendulums'[i].angularFrequency = pendulums[i].angularFrequency
              /\ pendulums'[i].visualLength = pendulums[i].visualLength
              /\ pendulums'[i].amplitudeRad = pendulums[i].amplitudeRad
              /\ pendulums'[i].pivotPoint = pendulums[i].pivotPoint

\* C9: after the updates of any frame (time advanced, repeated by a pause,
\* or rewound by a reset) each pendulum, bob and string end included, equals
\* a freshly set-up pendulum updated once with the current time; an update
\* that repeats the time of the one before changes nothing; and no update
\* changes angularFrequency, visualLength, amplitudeRad or pivotPoint.
C9_UpdateRecomputes == []AsFreshlyUpdated /\ [][UpdateSteps]_vars

\* the second frame's update ran with a time rewound by a reset, after the
\* first frame's update had moved the bobs elsewhere
C9_Witness ==
    /\ pc = "draw"
    /\ frame = 1
    /\ hist.reset = "first"
    /\ FLt(totalSimTime, hist.before)
    /\ FLt(FZero(0), totalSimTime)
    /\ shown[1].bobPos # pendulums[1].bobPos

\* ------------------------------------------------------------------------
\* Properties of the initialisation loop
\* ------------------------------------------------------------------------

\* C5: among the pendulums the loop has set up, a lower index has a strictly
\* smaller angular frequency and a strictly greater period.
C5_MonotonicFrequency ==
    \A i \in 1..idx : \A j \in 1..idx :
        i < j =>
            /\ FLt(pendulums[i].angularFrequency, pendulums[j].angularFrequency)
            /\ pendulums[i].angularFrequency = AngularFreq(i - 1)
            /\ pendulums[j].angularFrequency = AngularFreq(j - 1)
            /\ FLt(Period(j - 1), Period(i - 1))

\* the loop has set up the program's 25 pendulums
C5_Witness ==
    /\ pc = "loop"
    /\ numPendulums = NUM_PENDULUMS
    /\ idx = NUM_PENDULUMS

\* C8 as the specification states it: with one pendulum the colour ratio is
\* a finite number, namely 0, and the pendulum gets the colour of ratio 0.
C8_SingleOscillator ==
    (numPendulums = 1 /\ idx = 1) =>
        /\ IsFin(ColorRatio(0, numPendulums))
        /\ IsZero(ColorRatio(0, numPendulums))
        /\ pendulums[1].bobColor \in getColorFromRatio(FZero(0))

\* ------------------------------------------------------------------------
\* Properties of Pendulum::update at the start and the end of the cycle
\* ------------------------------------------------------------------------

\* 2 pi n in float arithmetic: n whole turns
Turns(n) == FMul(FMul(FromInt(2), pi), FromInt(n))

\* the phase angularFrequency * t of pendulum i (1-based) at the current time
Phase(i) == FMul(pendulums[i].angularFrequency, totalSimTime)

AtCycleStart == pc = "draw" /\ IsZero(totalSimTime)
AtCycleEnd == pc = "draw" /\ FEq(totalSimTime, TOTAL_PERIOD_S)

\* every bob hangs at the full amplitude, the angle of all pendulums
AllAtAmplitude ==
    \A i \in 1..numPendulums :
        LET p == pendulums[i]
        IN /\ CurrentAngle(p, totalSimTime) = maxAmplitudeRad
           /\ p.bobPos = <<FAdd(p.pivotPoint[1], FMul(p.visualLength, SinF(maxAmplitudeRad))),
                           FAdd(p.pivotPoint[2], FMul(p.visualLength, CosF(maxAmplitudeRad)))>>

PhaseTolerance == RoundPack(0, 1, 0 - 14, FALSE)

Ramp(ratio) == <<RampR(ratio), RampG(ratio), RampB(ratio)>>

InUnitRange(r) == FLe(FZero(0), r) /\ FLe(r, FromInt(1))

Returned == colorOut # <<>>

\* C6 as the specification states it: for a ratio in [0, 1] each returned
\* channel is in 0..255 and is the integer nearest to c * 255.
C6_NearestInteger ==
    (Returned /\ InUnitRange(ratioIn)) =>
        \A ch \in 1..3 :
            LET v == FMul(Ramp(ratioIn)[ch], FromInt(255))
            IN /\ colorOut[ch] \in 0..255
               /\ FLe(FAbs(FSub(v, FromInt(colorOut[ch]))), Lit(1, 2))

\* C6, amended: for a ratio in [0, 1] each returned channel is in 0..255 and
\* is c * 255 with its fraction dropped: channel <= c * 255 < channel + 1.
C6_Truncated ==
    (Returned /\ InUnitRange(ratioIn)) =>
        \A ch \in 1..3 :
            LET v == FMul(Ramp(ratioIn)[ch], FromInt(255))
            IN /\ colorOut[ch] \in 0..255
               /\ FLe(FromInt(colorOut[ch]), v)
               /\ FLt(v, FromInt(colorOut[ch] + 1))

\* the colour of the second of 25 pendulums: red is 233.75 cut to 233
C6_Witness ==
    /\ Returned
    /\ ratioIn = ColorRatio(1, NUM_PENDULUMS)
    /\ colorOut = <<233, 21, 0>>

\* C7 as the specification states it: a ratio below 0 gets the colour of
\* ratio 0 and a ratio above 1 the colour of ratio 1.
C7_OutOfRangeClamped ==
    /\ (Returned /\ FLt(ratioIn, FZero(0))) =>
          colorOut \in getColorFromRatio(FZero(0))
    /\ (Returned /\ FLt(FromInt(1), ratioIn)) =>
          colorOut \in getColorFromRatio(FromInt(1))

\* ------------------------------------------------------------------------
\* Properties of the simulation clock
\* ------------------------------------------------------------------------

\* timeScale after a speed-up followed by a speed-down
UpThenDown == SpeedDown(SpeedUp(timeScale))

\* C10 as the specification states it, for the states of the program:
\* timeScale is positive, a speed-up followed by a speed-down gives back
\* the same timeScale, and totalSimTime is not negative.
C10_RoundTripExact ==
    /\ FLt(FZero(0), timeScale)
    /\ FEq(UpThenDown, timeScale)
    /\ FLe(FZero(0), totalSimTime)

\* one unit in the last place of a
Ulp(a) == RoundPack(0, 1, a.e, FALSE)

\* timeScale is a positive number or +infinity, never zero and never a NaN
TimeScalePositive == ~IsNaN(timeScale) /\ FLt(FZero(0), timeScale)

\* a speed-up followed by a speed-down gives a value within one unit in the
\* last place of timeScale; when the speed-up overflows, +infinity
RoundTripNear ==
    IF IsFin(SpeedUp(timeScale))
    THEN FLe(FAbs(FSub(UpThenDown, timeScale)), Ulp(timeScale))
    ELSE IsInf(UpThenDown)

\* totalSimTime is not negative; it is a NaN only under an infinite timeScale
SimTimeSign ==
    IF IsNaN(totalSimTime) THEN IsInf(timeScale) ELSE FLe(FZero(0), totalSimTime)

ClockSteps ==
    /\ timeScale' \in {timeScale, SpeedUp(timeScale), SpeedDown(timeScale)}
    /\ IsInf(timeScale) => IsInf(timeScale')
    /\ ~KeyR => \/ FLe(totalSimTime, totalSimTime')
                \/ IsNaN(totalSimTime') /\ IsInf(timeScale)

\* C10, amended: each step leaves timeScale alone or replaces it by the
\* float product with 1.2f or the float quotient by 1.2f; it is always
\* positive, never zero and never a NaN, but it can become +infinity and
\* then stays so; a speed-up followed by a speed-down gives a value within
\* one unit in the last place of timeScale (+infinity when the speed-up
\* overflows); while timeScale is finite totalSimTime is not negative, and
\* no step other than the R key decreases it; under an infinite timeScale
\* an advance can make it a NaN.
C10_ClockMonotone ==
    /\ [](TimeScalePositive /\ RoundTripNear /\ SimTimeSign)
    /\ [][ClockSteps]_vars

\* the speed-up key was held until timeScale overflowed, and a frame with
\* dt = 0 has made totalSimTime a NaN
C10_Witness ==
    /\ pc = "update"
    /\ IsInf(timeScale)
    /\ IsZero(dt)
    /\ IsNaN(totalSimTime)

====
